---- MODULE Spec2Model ----
(***************************************************************************)
(* The broker coordinator of mqtt-broker (src/mqtt-broker/src/broker.rs):  *)
(* one task that owns the session map, takes one Message at a time from    *)
(* its inbound mpsc queue and answers on the ConnectionHandle of the       *)
(* session.  A handler is split only where the code awaits a send on a     *)
(* bounded channel; `pc` is the coordinator's position between awaits.     *)
(*                                                                         *)
(* Spec is the coordinator with its producers and connection workers,      *)
(* LifeSpec the same with producers cloning and dropping their             *)
(* BrokerHandles and room for two messages per channel.  PidSpec is a      *)
(* PacketIdentifiers and SessionSpec a Session of session.rs, each under   *)
(* any calls; the coordinator uses neither.                                *)
(***************************************************************************)
EXTENDS Integers, Sequences, FiniteSets, TLC

\* ------------------------------------------------------------------ bounds
NumClients == 2
NumConns == 2
\* Capacity of the broker's inbound queue (mpsc::channel(1024) in the code).
QueueCap == 1
\* Capacity of a connection's outbound channel (mpsc::channel(128) in tests).
ChanCap == 1
\* The same capacities, and the most BrokerHandles alive at once, where the
\* claim is about the order of queued messages or the life of the handles.
LifeQueueCap == 2
LifeChanCap == 2
MaxHandles == 2
\* Width in bits of a packet identifier (16 in the code, a u16) and the
\* binary logarithm of the width of a word of the bitset (6 or 5 in the code,
\* a usize of 64 or 32 bits).
IdBits == 3
WordBitsLog == 2
\* The most topic filters in one SUBSCRIBE or UNSUBSCRIBE packet, and the
\* number of packet identifiers such packets carry.
MaxFilters == 2
NumRequestIds == 2

ClientIds == 1..NumClients
\* A connection id (the Uuid of a ConnectionHandle); every connection has its
\* own outbound channel, and all clones of its handle share id and channel.
ConnIds == 1..NumConns

VARIABLES
    messages,   \* Broker.messages: the inbound queue, oldest first
    sessions,   \* Broker.sessions: HashMap<ClientId, Session>
    chan,       \* per connection: the outbound channel's content, oldest first
    rx_open,    \* per connection: the receiving half still exists
    pc,         \* the coordinator's position (the await it is at)
    local,      \* the locals of the handler the coordinator is in
    intended,   \* history: for each client id in the map, the variant that the
                \* clean-session flag of the CONNECT that bound it asks for
    handles,    \* the number of live BrokerHandles (clones of Broker.sender)
    env,        \* fixed at construction: the capacities of the channels and
                \* the messages the producers submit
    in_use,     \* PacketIdentifiers.in_use: the words of the bitset
    previous,   \* PacketIdentifiers.previous: the rolling cursor
    reserved,   \* history: the identifiers returned by a successful reserve
                \* and not discarded since
    outcome,    \* history: the last call on the PacketIdentifiers and its result
    returned,   \* history: the identifier the last successful reserve returned
                \* (0 while none has)
    sess,       \* a session.rs Session (the coordinator keeps none: broker.rs
                \* has a Session of its own)
    called      \* history: the last call on `sess`, its request and result

brokerVars == <<messages, sessions, chan, rx_open, pc, local, intended, handles, env>>

\* What an action of the coordinator, a producer or a connection worker never
\* touches.
otherVars == <<env, in_use, previous, reserved, outcome, returned, sess, called>>

pidVars == <<in_use, previous, reserved, outcome, returned>>

sessVars == <<sess, called>>

vars == <<brokerVars, pidVars, sessVars>>

\* ------------------------------------------------------------ value types
\* lib.rs Event, as the broker's match sees it (Connect carries the packet's
\* clean-session flag and the connection handle).
ConnectEvent(clean, handle) == [type |-> "Connect", clean |-> clean, handle |-> handle]

PlainEventTypes ==
    {"ConnAck", "Disconnect", "DropConnection", "CloseSession", "PingReq", "PingResp", "Unknown"}

\* The events a connection's worker submits for the session of its client.
SessionEventTypes == {"Disconnect", "DropConnection", "CloseSession", "PingReq"}

\* Such an event as submitted by the worker of connection `from`.  `from` is
\* history: lib.rs Event has no such field, and no handler reads it.
SubmittedEvent(type, from) == [type |-> type, from |-> from]

InboundEvents ==
    {ConnectEvent(cl, h) : cl \in BOOLEAN, h \in ConnIds}
        \cup {[type |-> t] : t \in PlainEventTypes \ SessionEventTypes}
        \cup {SubmittedEvent(t, h) : t \in SessionEventTypes, h \in ConnIds}

\* Message::new(client_id, event)
Message(client_id, event) == [client_id |-> client_id, event |-> event]

\* Every message a producer can build.
AllMessages == {Message(c, e) : c \in ClientIds, e \in InboundEvents}

\* The messages of one client that reach every handler: CONNECTs on each
\* connection and one event of each other kind the coordinator tells apart.
LifeMessages ==
    {Message(1, e) : e \in {ConnectEvent(TRUE, h) : h \in ConnIds}
                            \cup {[type |-> t] : t \in {"Disconnect", "DropConnection",
                                                        "CloseSession", "PingReq", "Unknown"}}}

\* Mutant: the acknowledgement announces a present session.
ConnAckSessionPresent == [type |-> "ConnAck", session_present |-> TRUE, return_code |-> "Accepted"]

\* proto::ConnAck { session_present: false, return_code: Accepted }
ConnAck == [type |-> "ConnAck", session_present |-> FALSE, return_code |-> "Accepted"]

DropConnection == [type |-> "DropConnection"]

Disconnect == [type |-> "Disconnect"]

PingResp == [type |-> "PingResp"]

\* Mutant: the session is built for another client id than the one it is
\* stored under.
NewSessionOtherClient(client_id, handle) ==
    [client_id |-> (client_id % NumClients) + 1, handle |-> handle]

\* broker.rs Session::new(client_id, handle)
NewSession(client_id, handle) == [client_id |-> client_id, handle |-> handle]

\* The coordinator's locals outside any handler.
NoSession == [client_id |-> 0, handle |-> 0]

\* `handle` and `session` are 0 and NoSession while the handler owns none.
\* `variant` and `dropped` are history: the intended variant of the session
\* the handler took out of the map ("None" when it took none), and the
\* connection the handler has sent DropConnection to (0 when it has sent none).
NoLocal ==
    [client_id |-> 0, clean |-> FALSE, handle |-> 0, session |-> NoSession,
     variant |-> "None", dropped |-> 0]

\* ConnectionHandle's PartialEq: two handles are equal iff they carry the same
\* connection id.
SameConnection(a, b) == a = b

\* The variant that section 4.1 gives a session bound by a CONNECT with this
\* clean-session flag.
VariantOf(clean) == IF clean THEN "Transient" ELSE "Persistent"

\* --------------------------------------------------------- the session map
\* HashMap::remove
MapRemove(map, key) == [k \in (DOMAIN map) \ {key} |-> map[k]]

\* HashMap::insert
MapInsert(map, key, value) == [k \in (DOMAIN map) \cup {key} |-> IF k = key THEN value ELSE map[k]]

\* ------------------------------------------------------ outbound channels
\* The outcome of `handle.send(message).await` on a bounded mpsc channel:
\* it fails once the receiver is gone, completes when there is room, and
\* otherwise stays suspended.
SendFails(h) == ~rx_open[h]

\* Mutant: the channel is unbounded, a send never waits for room.
SendCompletesUnbounded(h) == rx_open[h]

SendCompletes(h) == rx_open[h] /\ Len(chan[h]) < env.chan_cap

SendReturns(h) == SendFails(h) \/ SendCompletes(h)

\* The channels after the send has returned.
AfterSend(h, message) == IF SendFails(h) THEN chan ELSE [chan EXCEPT ![h] = Append(@, message)]

\* The Result of `session.send(message).await` / `handle.send(message).await`.
SendResult(h) == IF SendFails(h) THEN "Err" ELSE "Ok"

\* Mutant: handle_message hands the handler's error on to run.
HandleMessagePropagates(result) == result

\* handle_message: `if let Err(e) = result { warn!(...) }  Ok(())`.
HandleMessage(result) == "Ok"

\* run: `self.handle_message(message).await?` inside the `while let` loop: Ok
\* goes back to recv, an error would end run with that error.
RunAfter(result) == IF result = "Ok" THEN "recv" ELSE "returned_err"

\* Every sender of the inbound queue: Broker.sender, which run (taking `self`)
\* keeps for as long as it runs, and the live BrokerHandles cloned from it.
Senders == 1 + handles

\* `self.messages.recv().await` yields None: the queue is empty and closed,
\* that is, no sender is left.  The `while let` loop then ends and run
\* returns Ok(()).
RecvNone == pc = "recv" /\ messages = <<>> /\ Senders = 0

\* -------------------------------------------------------------------- Init
\* Broker::new, one `broker.handle()` and `tokio::spawn(broker.run())`, as
\* Server::serve and the tests do; no connection has exited yet.
BrokerInit ==
    /\ messages = <<>>
    /\ sessions = <<>>
    /\ chan = [h \in ConnIds |-> <<>>]
    /\ rx_open = [h \in ConnIds |-> TRUE]
    /\ pc = "recv"
    /\ local = NoLocal
    /\ intended = <<>>
    /\ handles = 1

\* ------------------------------------------------------ PacketIdentifiers
\* The raw values of a packet identifier's width, and proto::PacketIdentifier:
\* the ones but 0.
NumIds == 2 ^ IdBits

MaxPacketId == NumIds - 1

PacketIdentifier == 1..MaxPacketId

\* `mem::size_of::<usize>() * 8`
WordBits == 2 ^ WordBitsLog

\* PacketIdentifiers::SIZE
SIZE == NumIds \div WordBits

\* `(*block & mask) != 0` for a mask of one bit
HasBit(word, mask) == (word \div mask) % 2 = 1

\* `*block |= mask`
OrMask(word, mask) == IF HasBit(word, mask) THEN word ELSE word + mask

\* Mutant: the whole word is cleared.
AndNotMaskClearsWord(word, mask) == 0

\* Mutant: the bit is flipped (`*block ^= mask`).
XorMask(word, mask) == IF HasBit(word, mask) THEN word - mask ELSE word + mask

\* `*block &= !mask`
AndNotMask(word, mask) == IF HasBit(word, mask) THEN word - mask ELSE word

\* Mutant: every identifier is looked up in the first word.
EntryFirstWord(packet_identifier) ==
    [block |-> 0, mask |-> 2 ^ (packet_identifier % WordBits)]

\* PacketIdentifiers::entry: the index of the word and the mask of the bit.
Entry(packet_identifier) ==
    [block |-> packet_identifier \div WordBits, mask |-> 2 ^ (packet_identifier % WordBits)]

\* `current += 1` on a proto::PacketIdentifier: the addition wraps in the
\* identifier's width and steps over 0.
Successor(packet_identifier) ==
    IF (packet_identifier + 1) % NumIds = 0 THEN 1 ELSE (packet_identifier + 1) % NumIds

NoOutcome == [call |-> "none", ok |-> TRUE, id |-> 0]

\* PacketIdentifiers::default
PidInit ==
    /\ in_use = [block \in 0..(SIZE - 1) |-> 0]
    /\ previous = MaxPacketId
    /\ reserved = {}
    /\ outcome = NoOutcome
    /\ returned = 0

\* --------------------------------------------------------------- Session
\* proto::QoS
QoS == {"AtMostOnce", "AtLeastOnce", "ExactlyOnce"}

\* Topic filter strings, as their levels between the '/' separators.
TopicFilters == {<<"topic", "new">>, <<"topic", "#">>, <<"#", "bad">>}

\* `topic_filter.parse()`: the multi-level wildcard is allowed as the last
\* level only; the parsed filter is the list of its segments.
ParseTopicFilter(topic_filter) ==
    IF \E i \in 1..(Len(topic_filter) - 1) : topic_filter[i] = "#"
        THEN [ok |-> FALSE]
        ELSE [ok |-> TRUE,
              filter |-> [i \in 1..Len(topic_filter) |->
                            IF topic_filter[i] = "#"
                                THEN [segment |-> "MultiLevelWildcard"]
                                ELSE [segment |-> "Level", level |-> topic_filter[i]]]]

\* Subscription::new(filter, qos)
NewSubscription(filter, qos) == [filter |-> filter, max_qos |-> qos]

\* SessionState::new: no subscriptions.  (client_id, keep_alive and
\* last_active take no part in subscribe and unsubscribe.)
NewSessionState == [subscriptions |-> <<>>]

\* Mutant: an entry already under the filter is kept (entry().or_insert()).
UpdateSubscriptionKeepsFirst(state, topic_filter, subscription) ==
    IF topic_filter \in DOMAIN state.subscriptions
        THEN state
        ELSE [state EXCEPT !.subscriptions = MapInsert(@, topic_filter, subscription)]

\* SessionState::update_subscription
UpdateSubscription(state, topic_filter, subscription) ==
    [state EXCEPT !.subscriptions = MapInsert(@, topic_filter, subscription)]

\* Mutant: the whole table is cleared.
RemoveSubscriptionClears(state, topic_filter) == [state EXCEPT !.subscriptions = <<>>]

\* SessionState::remove_subscription
RemoveSubscription(state, topic_filter) ==
    [state EXCEPT !.subscriptions = MapRemove(@, topic_filter)]

\* Session::new_transient
NewTransient == [variant |-> "Transient", state |-> NewSessionState]

\* Session::new_persistent(connreq, state)
NewPersistent(state) == [variant |-> "Persistent", state |-> state]

\* Session::new_offline(state)
NewOffline(state) == [variant |-> "Offline", state |-> state]

\* Session::Disconnecting(client_id, handle): no SessionState.
Disconnecting == [variant |-> "Disconnecting"]

\* The states update_subscription can build: any of the filters that parse,
\* each under its string with any QoS.
SessionStates ==
    UNION {{[subscriptions |-> [f \in S |-> NewSubscription(ParseTopicFilter(f).filter, q[f])]] :
                q \in [S -> QoS]} :
           S \in SUBSET {f \in TopicFilters : ParseTopicFilter(f).ok}}

\* The sequences over S of at most n elements.
SeqsUpTo(S, n) == UNION {[1..k -> S] : k \in 0..n}

RequestIds == 1..NumRequestIds

\* proto::Subscribe { packet_identifier, subscribe_to: Vec<SubscribeTo> }
Subscribes ==
    [packet_identifier : RequestIds,
     subscribe_to : SeqsUpTo([topic_filter : TopicFilters, qos : QoS], MaxFilters)]

\* proto::Unsubscribe { packet_identifier, unsubscribe_from: Vec<String> }
Unsubscribes ==
    [packet_identifier : RequestIds, unsubscribe_from : SeqsUpTo(TopicFilters, MaxFilters)]

\* proto::SubAckQos
SubAckSuccess(qos) == [ack |-> "Success", qos |-> qos]

SubAckFailure == [ack |-> "Failure"]

\* Err(Error::from(ErrorKind::SessionOffline))
SessionOffline == [kind |-> "Err", error |-> "SessionOffline"]

NoCall == [op |-> "none"]

\* No call has been made on the session.
SessionIdle ==
    /\ sess = NewTransient
    /\ called = NoCall

Init ==
    /\ BrokerInit
    /\ env = [queue_cap |-> QueueCap, chan_cap |-> ChanCap, workload |-> AllMessages]
    /\ PidInit
    /\ SessionIdle

\* The same broker with room for two messages in every channel, fed with
\* LifeMessages.
LifeInit ==
    /\ BrokerInit
    /\ env = [queue_cap |-> LifeQueueCap, chan_cap |-> LifeChanCap, workload |-> LifeMessages]
    /\ PidInit
    /\ SessionIdle

\* A session as one of its constructors builds it, in any of the four
\* variants.
SessionInit ==
    /\ BrokerInit
    /\ env = [queue_cap |-> QueueCap, chan_cap |-> ChanCap, workload |-> AllMessages]
    /\ PidInit
    /\ sess \in {NewTransient, Disconnecting}
                    \cup {NewPersistent(state) : state \in SessionStates}
                    \cup {NewOffline(state) : state \in SessionStates}
    /\ called = NoCall

\* ------------------------------------------------------------- producers
\* Mutant: the queue hands out the newest message first.
EnqueueFront(queue, message) == <<message>> \o queue

\* Sender::send on the inbound mpsc queue: the message goes behind the ones
\* already queued.
Enqueue(queue, message) == Append(queue, message)

\* BrokerHandle is Clone: a producer clones the handle it holds.
BrokerHandleClone ==
    /\ handles > 0
    /\ handles < MaxHandles
    /\ handles' = handles + 1
    /\ UNCHANGED <<messages, sessions, chan, rx_open, pc, local, intended, otherVars>>

\* A producer drops its BrokerHandle.
BrokerHandleDrop ==
    /\ handles > 0
    /\ handles' = handles - 1
    /\ UNCHANGED <<messages, sessions, chan, rx_open, pc, local, intended, otherVars>>

\* BrokerHandle::send: any producer may submit any message (a CONNECT carries
\* a clone of some connection's handle); it is suspended while the inbound
\* queue is full.
BrokerHandleSend ==
    \E message \in env.workload :
        /\ handles > 0
        /\ Len(messages) < env.queue_cap
        /\ messages' = Enqueue(messages, message)
        /\ UNCHANGED <<sessions, chan, rx_open, pc, local, intended, handles, otherVars>>

\* ------------------------------------------------------ connection workers
\* The worker's writer takes the next outbound message off its channel.
ConnectionRecv ==
    \E h \in ConnIds :
        /\ rx_open[h]
        /\ chan[h] # <<>>
        /\ chan' = [chan EXCEPT ![h] = Tail(@)]
        /\ UNCHANGED <<messages, sessions, rx_open, pc, local, intended, handles, otherVars>>

\* The worker exits: the receiving half is dropped with the messages left in it.
ConnectionExit ==
    \E h \in ConnIds :
        /\ rx_open[h]
        /\ rx_open' = [rx_open EXCEPT ![h] = FALSE]
        /\ chan' = [chan EXCEPT ![h] = <<>>]
        /\ UNCHANGED <<messages, sessions, pc, local, intended, handles, otherVars>>

\* ------------------------------------------------------------ coordinator
\* Broker::run: `while let Some(message) = self.messages.recv().await`.
CanRecv == pc = "recv" /\ messages # <<>>

\* Mutant: the handles are not compared, every CONNECT over a session is a
\* takeover.
ConnectFirstPcNoCheck(session, handle) == "takeover_drop"

\* handle_connect up to its first await.
ConnectFirstPc(session, handle) ==
    IF SameConnection(session.handle, handle) THEN "violation_drop" ELSE "takeover_drop"

HandleConnect ==
    /\ CanRecv
    /\ Head(messages).event.type = "Connect"
    /\ LET client_id == Head(messages).client_id
           connect == Head(messages).event
       IN  /\ messages' = Tail(messages)
           /\ IF client_id \in DOMAIN sessions
                 THEN /\ sessions' = MapRemove(sessions, client_id)
                      /\ intended' = MapRemove(intended, client_id)
                      /\ local' = [client_id |-> client_id, clean |-> connect.clean,
                                   handle |-> connect.handle, session |-> sessions[client_id],
                                   variant |-> intended[client_id], dropped |-> 0]
                      /\ pc' = ConnectFirstPc(sessions[client_id], connect.handle)
                 ELSE /\ local' = [client_id |-> client_id, clean |-> connect.clean,
                                   handle |-> 0,
                                   session |-> NewSession(client_id, connect.handle),
                                   variant |-> "None", dropped |-> 0]
                      /\ pc' = "connack"
                      /\ UNCHANGED <<sessions, intended>>
    /\ UNCHANGED <<chan, rx_open, handles, otherVars>>

\* Second CONNECT on the same connection: `handle.send(DropConnection).await?;
\* return Ok(())`; the removed session and the handle are dropped.
SendViolationDrop ==
    /\ pc = "violation_drop"
    /\ SendReturns(local.handle)
    /\ chan' = AfterSend(local.handle, Message(local.client_id, DropConnection))
    /\ pc' = RunAfter(HandleMessage(SendResult(local.handle)))
    /\ local' = NoLocal
    /\ UNCHANGED <<messages, sessions, rx_open, intended, handles, otherVars>>

\* Mutant: the session keeps the handle of the connection it was taken from.
TakeoverSessionKeepsHandle(session, handle) == session

\* Takeover: `try_send!(session, DropConnection); session.handle = handle;`
TakeoverSession(session, handle) == [session EXCEPT !.handle = handle]

SendTakeoverDrop ==
    /\ pc = "takeover_drop"
    /\ SendReturns(local.session.handle)
    /\ chan' = AfterSend(local.session.handle, Message(local.client_id, DropConnection))
    /\ local' = [local EXCEPT !.session = TakeoverSession(local.session, local.handle),
                              !.handle = 0,
                              !.dropped = local.session.handle]
    /\ pc' = "connack"
    /\ UNCHANGED <<messages, sessions, rx_open, intended, handles, otherVars>>

\* `try_send!(new_session, ConnAck); self.sessions.insert(client_id, new_session);`
SendConnAck ==
    /\ pc = "connack"
    /\ SendReturns(local.session.handle)
    /\ chan' = AfterSend(local.session.handle, Message(local.client_id, ConnAck))
    /\ sessions' = MapInsert(sessions, local.client_id, local.session)
    /\ intended' = MapInsert(intended, local.client_id, VariantOf(local.clean))
    /\ pc' = RunAfter(HandleMessage("Ok"))
    /\ local' = NoLocal
    /\ UNCHANGED <<messages, rx_open, handles, otherVars>>

\* Mutant: the session is looked up (`get_mut`) and stays in the map.
TakeSessionKeep(client_id, next_pc) ==
    /\ messages' = Tail(messages)
    /\ IF client_id \in DOMAIN sessions
          THEN /\ local' = [client_id |-> client_id, clean |-> FALSE, handle |-> 0,
                            session |-> sessions[client_id],
                            variant |-> intended[client_id], dropped |-> 0]
               /\ pc' = next_pc
          ELSE UNCHANGED <<local, pc>>
    /\ UNCHANGED <<sessions, intended, chan, rx_open, handles, otherVars>>

\* Mutant: the event is ignored unless the connection that submitted it is the
\* one the session is bound to.
TakeSessionOfSubmitter(client_id, next_pc) ==
    /\ messages' = Tail(messages)
    /\ IF client_id \in DOMAIN sessions /\ sessions[client_id].handle = Head(messages).event.from
          THEN /\ sessions' = MapRemove(sessions, client_id)
               /\ intended' = MapRemove(intended, client_id)
               /\ local' = [client_id |-> client_id, clean |-> FALSE, handle |-> 0,
                            session |-> sessions[client_id],
                            variant |-> intended[client_id], dropped |-> 0]
               /\ pc' = next_pc
          ELSE UNCHANGED <<sessions, intended, local, pc>>
    /\ UNCHANGED <<chan, rx_open, handles, otherVars>>

\* handle_disconnect / handle_drop_connection up to the await: the session is
\* taken out of the map before the send.
TakeSession(client_id, next_pc) ==
    /\ messages' = Tail(messages)
    /\ IF client_id \in DOMAIN sessions
          THEN /\ sessions' = MapRemove(sessions, client_id)
               /\ intended' = MapRemove(intended, client_id)
               /\ local' = [client_id |-> client_id, clean |-> FALSE, handle |-> 0,
                            session |-> sessions[client_id],
                            variant |-> intended[client_id], dropped |-> 0]
               /\ pc' = next_pc
          ELSE UNCHANGED <<sessions, intended, local, pc>>
    /\ UNCHANGED <<chan, rx_open, handles, otherVars>>

\* handle_disconnect: `self.sessions.remove(&client_id)`, then the send.
HandleDisconnect ==
    /\ CanRecv
    /\ Head(messages).event.type = "Disconnect"
    /\ TakeSession(Head(messages).client_id, "disconnect")

\* `session.send(Disconnect).await?;` then the session is dropped.
SendDisconnect ==
    /\ pc = "disconnect"
    /\ SendReturns(local.session.handle)
    /\ chan' = AfterSend(local.session.handle, Message(local.client_id, Disconnect))
    /\ pc' = RunAfter(HandleMessage(SendResult(local.session.handle)))
    /\ local' = NoLocal
    /\ UNCHANGED <<messages, sessions, rx_open, intended, handles, otherVars>>

\* Mutant: DropConnection is logged and ignored like the unknown events.
HandleDropConnectionIgnored ==
    /\ CanRecv
    /\ Head(messages).event.type = "DropConnection"
    /\ messages' = Tail(messages)
    /\ UNCHANGED <<sessions, chan, rx_open, pc, local, intended, handles, otherVars>>

\* handle_drop_connection: `self.sessions.remove(&client_id)`, then the send.
HandleDropConnection ==
    /\ CanRecv
    /\ Head(messages).event.type = "DropConnection"
    /\ TakeSession(Head(messages).client_id, "drop_connection")

\* `session.send(DropConnection).await?;` then the session is dropped.
SendDropConnection ==
    /\ pc = "drop_connection"
    /\ SendReturns(local.session.handle)
    /\ chan' = AfterSend(local.session.handle, Message(local.client_id, DropConnection))
    /\ pc' = RunAfter(HandleMessage(SendResult(local.session.handle)))
    /\ local' = NoLocal
    /\ UNCHANGED <<messages, sessions, rx_open, intended, handles, otherVars>>

\* Mutant: the whole map is cleared (`self.sessions.clear()`).
HandleCloseSessionClear ==
    /\ CanRecv
    /\ Head(messages).event.type = "CloseSession"
    /\ messages' = Tail(messages)
    /\ sessions' = <<>>
    /\ intended' = <<>>
    /\ UNCHANGED <<chan, rx_open, pc, local, handles, otherVars>>

\* handle_close_session: `self.sessions.remove(&client_id)`, nothing sent.
HandleCloseSession ==
    /\ CanRecv
    /\ Head(messages).event.type = "CloseSession"
    /\ messages' = Tail(messages)
    /\ sessions' = MapRemove(sessions, Head(messages).client_id)
    /\ intended' = MapRemove(intended, Head(messages).client_id)
    /\ UNCHANGED <<chan, rx_open, pc, local, handles, otherVars>>

\* handle_ping_req up to the await: `self.sessions.get_mut(&client_id)`.
HandlePingReq ==
    /\ CanRecv
    /\ Head(messages).event.type = "PingReq"
    /\ messages' = Tail(messages)
    /\ IF Head(messages).client_id \in DOMAIN sessions
          THEN /\ pc' = "ping_resp"
               /\ local' = [NoLocal EXCEPT !.client_id = Head(messages).client_id]
          ELSE UNCHANGED <<pc, local>>
    /\ UNCHANGED <<sessions, chan, rx_open, intended, handles, otherVars>>

\* Mutant: the session is taken out of the map once the PingResp is sent.
SendPingRespRetires ==
    /\ pc = "ping_resp"
    /\ SendReturns(sessions[local.client_id].handle)
    /\ chan' = AfterSend(sessions[local.client_id].handle, Message(local.client_id, PingResp))
    /\ sessions' = MapRemove(sessions, local.client_id)
    /\ intended' = MapRemove(intended, local.client_id)
    /\ pc' = "recv"
    /\ local' = NoLocal
    /\ UNCHANGED <<messages, rx_open, handles, otherVars>>

\* `session.send(PingResp).await?;` on the session still in the map.
SendPingResp ==
    /\ pc = "ping_resp"
    /\ SendReturns(sessions[local.client_id].handle)
    /\ chan' = AfterSend(sessions[local.client_id].handle, Message(local.client_id, PingResp))
    /\ pc' = RunAfter(HandleMessage(SendResult(sessions[local.client_id].handle)))
    /\ local' = NoLocal
    /\ UNCHANGED <<messages, sessions, rx_open, intended, handles, otherVars>>

\* Event::ConnAck, Event::PingResp, Event::Unknown: logged and ignored.
HandleIgnored ==
    /\ CanRecv
    /\ Head(messages).event.type \in {"ConnAck", "PingResp", "Unknown"}
    /\ messages' = Tail(messages)
    /\ UNCHANGED <<sessions, chan, rx_open, pc, local, intended, handles, otherVars>>

Next ==
    \/ BrokerHandleSend
    \/ ConnectionRecv
    \/ ConnectionExit
    \/ HandleConnect
    \/ SendViolationDrop
    \/ SendTakeoverDrop
    \/ SendConnAck
    \/ HandleDisconnect
    \/ SendDisconnect
    \/ HandleDropConnection
    \/ SendDropConnection
    \/ HandleCloseSession
    \/ HandlePingReq
    \/ SendPingResp
    \/ HandleIgnored

Spec == Init /\ [][Next]_vars

\* The broker with its producers cloning and dropping their handles.
LifeNext ==
    \/ Next
    \/ BrokerHandleClone
    \/ BrokerHandleDrop

LifeSpec == LifeInit /\ [][LifeNext]_vars

\* ---------------------------------------- PacketIdentifiers: operations
\* Mutant: the bit of the next identifier is not tested.
ReserveUnchecked ==
    LET current == Successor(previous)
        entry == Entry(current)
    IN  /\ in_use' = [in_use EXCEPT ![entry.block] = OrMask(@, entry.mask)]
        /\ previous' = current
        /\ reserved' = reserved \cup {current}
        /\ outcome' = [call |-> "reserve", ok |-> TRUE, id |-> current]
        /\ returned' = current
        /\ UNCHANGED <<brokerVars, sessVars>>

\* The identifiers whose bit is clear.
FreeIds == {id \in PacketIdentifier : ~HasBit(in_use[Entry(id).block], Entry(id).mask)}

\* Mutant: the lowest free identifier is handed out.
ReserveLowestFree ==
    /\ IF FreeIds = {}
          THEN /\ outcome' = [call |-> "reserve", ok |-> FALSE, id |-> 0]
               /\ UNCHANGED <<in_use, previous, reserved, returned>>
          ELSE LET current == CHOOSE id \in FreeIds : \A other \in FreeIds : id <= other
                   entry == Entry(current)
               IN  /\ in_use' = [in_use EXCEPT ![entry.block] = OrMask(@, entry.mask)]
                   /\ previous' = current
                   /\ reserved' = reserved \cup {current}
                   /\ outcome' = [call |-> "reserve", ok |-> TRUE, id |-> current]
                   /\ returned' = current
    /\ UNCHANGED <<brokerVars, sessVars>>

\* Mutant: the cursor goes on to the first free identifier, and reserve fails
\* only when there is none.
ReserveScans ==
    /\ IF FreeIds = {}
          THEN /\ outcome' = [call |-> "reserve", ok |-> FALSE, id |-> 0]
               /\ UNCHANGED <<in_use, previous, reserved, returned>>
          ELSE LET after(k) == ((previous - 1 + k) % MaxPacketId) + 1
                   steps == CHOOSE k \in 1..MaxPacketId :
                                /\ after(k) \in FreeIds
                                /\ \A j \in 1..(k - 1) : after(j) \notin FreeIds
                   current == after(steps)
                   entry == Entry(current)
               IN  /\ in_use' = [in_use EXCEPT ![entry.block] = OrMask(@, entry.mask)]
                   /\ previous' = current
                   /\ reserved' = reserved \cup {current}
                   /\ outcome' = [call |-> "reserve", ok |-> TRUE, id |-> current]
                   /\ returned' = current
    /\ UNCHANGED <<brokerVars, sessVars>>

\* PacketIdentifiers::reserve
Reserve ==
    LET current == Successor(previous)
        entry == Entry(current)
    IN  /\ IF HasBit(in_use[entry.block], entry.mask)
              THEN /\ outcome' = [call |-> "reserve", ok |-> FALSE, id |-> 0]
                   /\ UNCHANGED <<in_use, previous, reserved, returned>>
              ELSE /\ in_use' = [in_use EXCEPT ![entry.block] = OrMask(@, entry.mask)]
                   /\ previous' = current
                   /\ reserved' = reserved \cup {current}
                   /\ outcome' = [call |-> "reserve", ok |-> TRUE, id |-> current]
                   /\ returned' = current
        /\ UNCHANGED <<brokerVars, sessVars>>

\* PacketIdentifiers::discard
Discard ==
    \E packet_identifier \in PacketIdentifier :
        LET entry == Entry(packet_identifier)
        IN  /\ in_use' = [in_use EXCEPT ![entry.block] = AndNotMask(@, entry.mask)]
            /\ reserved' = reserved \ {packet_identifier}
            /\ outcome' = [call |-> "discard", ok |-> TRUE, id |-> packet_identifier]
            /\ UNCHANGED <<previous, returned, brokerVars, sessVars>>

PidNext ==
    \/ Reserve
    \/ Discard

\* A PacketIdentifiers from its default state under any calls.
PidSpec == Init /\ [][PidNext]_vars

\* --------------------------------------------------- Session: operations
\* Mutant: a filter that does not parse gets no entry in the ack vector.
SubscribeStepDropsFailure(acc, subscribe_to) ==
    LET parsed == ParseTopicFilter(subscribe_to.topic_filter)
    IN  IF parsed.ok
            THEN [state |-> UpdateSubscription(acc.state, subscribe_to.topic_filter,
                                               NewSubscription(parsed.filter, subscribe_to.qos)),
                  acks |-> Append(acc.acks, SubAckSuccess(subscribe_to.qos))]
            ELSE acc

\* One turn of the loop of ConnectedSession::subscribe.
SubscribeStep(acc, subscribe_to) ==
    LET parsed == ParseTopicFilter(subscribe_to.topic_filter)
    IN  IF parsed.ok
            THEN [state |-> UpdateSubscription(acc.state, subscribe_to.topic_filter,
                                               NewSubscription(parsed.filter, subscribe_to.qos)),
                  acks |-> Append(acc.acks, SubAckSuccess(subscribe_to.qos))]
            ELSE [acc EXCEPT !.acks = Append(@, SubAckFailure)]

RECURSIVE SubscribeLoop(_, _)
\* `for subscribe_to in subscribe.subscribe_to.into_iter()`
SubscribeLoop(acc, subscribe_to) ==
    IF subscribe_to = <<>>
        THEN acc
        ELSE SubscribeLoop(SubscribeStep(acc, Head(subscribe_to)), Tail(subscribe_to))

\* ConnectedSession::subscribe: the state after it and its result.
ConnectedSubscribe(state, subscribe) ==
    LET done == SubscribeLoop([state |-> state, acks |-> <<>>], subscribe.subscribe_to)
    IN  [state |-> done.state,
         result |-> [kind |-> "SubAck",
                     packet_identifier |-> subscribe.packet_identifier,
                     qos |-> done.acks]]

RECURSIVE UnsubscribeLoop(_, _)
\* `for filter in unsubscribe.unsubscribe_from.iter()`
UnsubscribeLoop(state, unsubscribe_from) ==
    IF unsubscribe_from = <<>>
        THEN state
        ELSE UnsubscribeLoop(RemoveSubscription(state, Head(unsubscribe_from)),
                             Tail(unsubscribe_from))

\* ConnectedSession::unsubscribe: the state after it and its result.
ConnectedUnsubscribe(state, unsubscribe) ==
    [state |-> UnsubscribeLoop(state, unsubscribe.unsubscribe_from),
     result |-> [kind |-> "UnsubAck", packet_identifier |-> unsubscribe.packet_identifier]]

\* Mutant: an Offline session is matched like a connected one.
ConnectedOrOffline(a_session) == a_session.variant \in {"Transient", "Persistent", "Offline"}

\* Transient(connected) or Persistent(connected)
Connected(a_session) == a_session.variant \in {"Transient", "Persistent"}

\* Session::subscribe
SessionSubscribe ==
    \E subscribe \in Subscribes :
        /\ IF Connected(sess)
              THEN LET done == ConnectedSubscribe(sess.state, subscribe)
                   IN  /\ sess' = [sess EXCEPT !.state = done.state]
                       /\ called' = [op |-> "subscribe", request |-> subscribe,
                                     result |-> done.result]
              ELSE /\ sess' = sess
                   /\ called' = [op |-> "subscribe", request |-> subscribe,
                                 result |-> SessionOffline]
        /\ UNCHANGED <<brokerVars, pidVars>>

\* Session::unsubscribe
SessionUnsubscribe ==
    \E unsubscribe \in Unsubscribes :
        /\ IF Connected(sess)
              THEN LET done == ConnectedUnsubscribe(sess.state, unsubscribe)
                   IN  /\ sess' = [sess EXCEPT !.state = done.state]
                       /\ called' = [op |-> "unsubscribe", request |-> unsubscribe,
                                     result |-> done.result]
              ELSE /\ sess' = sess
                   /\ called' = [op |-> "unsubscribe", request |-> unsubscribe,
                                 result |-> SessionOffline]
        /\ UNCHANGED <<brokerVars, pidVars>>

SessionNext ==
    \/ SessionSubscribe
    \/ SessionUnsubscribe

\* A session under any SUBSCRIBE and UNSUBSCRIBE packets.
SessionSpec == SessionInit /\ [][SessionNext]_vars

\* ------------------------------------------------- vocabulary of the claims
\* The coordinator takes the next message off the inbound queue in this step.
Dequeues == CanRecv /\ messages' = Tail(messages)

\* The message the coordinator takes in a Dequeues step.
Inbound == Head(messages)

\* The coordinator leaves the await `at` in this step.
Leaves(at) == pc = at /\ pc' # at

\* In this step exactly `message` is put on connection h's channel.
Puts(h, message) ==
    /\ chan'[h] = Append(chan[h], message)
    /\ \A o \in ConnIds \ {h} : chan'[o] = chan[o]

\* The outcome of one send of `message` to h: delivered while h's receiver
\* exists, lost (and nothing else delivered) once it is gone.
SendsOnce(h, message) == IF rx_open[h] THEN Puts(h, message) ELSE chan' = chan

\* Every entry of the map but client_id's is as before.
OthersKept(client_id) ==
    /\ DOMAIN sessions' \ {client_id} = DOMAIN sessions \ {client_id}
    /\ \A k \in DOMAIN sessions \ {client_id} : sessions'[k] = sessions[k]

\* The sessions of the map that are sessions of client id c.
SessionsOf(c) == {k \in DOMAIN sessions : sessions[k].client_id = c}

\* ------------------------------------------------------------------ claims
\* C1: at every moment, and so after every fully processed event, the session
\* map holds at most one session per client id: each entry is the session of
\* the client id it is stored under, bound to exactly one connection.
C1_OneSessionPerClient ==
    \A c \in ClientIds :
        /\ SessionsOf(c) \subseteq {c}
        /\ c \in DOMAIN sessions => sessions[c].handle \in ConnIds

\* Both client ids are bound, one of them after a takeover, and the
\* coordinator is between events.
C1_Witness ==
    /\ pc = "recv"
    /\ DOMAIN sessions = ClientIds
    /\ \E h \in ConnIds : chan[h] # <<>> /\ chan[h][1].event = DropConnection

C3_TakeoverOrder ==
    [][ /\ ( /\ Dequeues
             /\ Inbound.event.type = "Connect"
             /\ Inbound.client_id \in DOMAIN sessions
             /\ sessions[Inbound.client_id].handle # Inbound.event.handle )
            => /\ pc' = "takeover_drop"
               /\ local'.client_id = Inbound.client_id
               /\ local'.session = sessions[Inbound.client_id]
               /\ local'.handle = Inbound.event.handle
               /\ Inbound.client_id \notin DOMAIN sessions'
               /\ chan' = chan
        /\ Leaves("takeover_drop")
            => /\ pc' = "connack"
               /\ SendsOnce(local.session.handle, Message(local.client_id, DropConnection))
               /\ local'.dropped = local.session.handle
               /\ local'.session.handle = local.handle
               /\ local'.session.handle # local'.dropped
               /\ local.client_id \notin DOMAIN sessions'
        /\ (Leaves("connack") /\ local.dropped # 0)
            => /\ pc' = "recv"
               /\ SendsOnce(local.session.handle, Message(local.client_id, ConnAck))
               /\ local.session.handle # local.dropped
               /\ local.client_id \notin DOMAIN sessions
               /\ local.client_id \in DOMAIN sessions'
               /\ sessions'[local.client_id].handle = local.session.handle
      ]_vars

\* The coordinator has sent DropConnection to A and is about to send ConnAck
\* to B, both channels having a receiver.
C3_Witness ==
    /\ pc = "connack"
    /\ local.dropped # 0
    /\ rx_open[local.dropped]
    /\ rx_open[local.session.handle]
    /\ chan[local.dropped] # <<>>
    /\ chan[local.dropped][Len(chan[local.dropped])] = Message(local.client_id, DropConnection)

\* C3 as stated: DropConnection to A, then C bound to B in the session map,
\* then ConnAck to B.
C3_Original ==
    [][ /\ Leaves("takeover_drop")
            => /\ SendsOnce(local.session.handle, Message(local.client_id, DropConnection))
               /\ local.client_id \in DOMAIN sessions'
               /\ sessions'[local.client_id].handle = local.handle
        /\ (Leaves("connack") /\ local.dropped # 0)
            => /\ local.client_id \in DOMAIN sessions
               /\ sessions[local.client_id].handle = local.session.handle
               /\ SendsOnce(local.session.handle, Message(local.client_id, ConnAck))
      ]_vars

\* After this step the coordinator owns a send endpoint of connection h: in a
\* session of the map or in the locals of the handler it is in.
HoldsAfter(h) ==
    \/ \E k \in DOMAIN sessions' : sessions'[k].handle = h
    \/ local'.handle = h
    \/ local'.session.handle = h

\* C4: when the coordinator has processed a CONNECT that made it send
\* DropConnection to a connection (a second CONNECT on it, or a takeover of
\* it), it owns no send endpoint of that connection any more.
C4_NoEndpointKept ==
    [][ /\ Leaves("violation_drop") => ~HoldsAfter(local.handle)
        /\ (Leaves("connack") /\ local.dropped # 0) => ~HoldsAfter(local.dropped)
      ]_vars

\* C5: a CONNECT for C with no session for C makes the coordinator build a
\* session for C on the request's handle, send exactly one ConnAck with return
\* code Accepted to that handle and put the session into the map, leaving the
\* other entries alone; the session is Transient for a clean-session CONNECT
\* and Persistent otherwise.  The broker's Session is a client id and a
\* handle, so a Persistent session can only be a value other than the
\* Transient session that a clean-session CONNECT leaves.
C5_FreshSession ==
    [][ /\ ( /\ Dequeues
             /\ Inbound.event.type = "Connect"
             /\ Inbound.client_id \notin DOMAIN sessions )
            => /\ pc' = "connack"
               /\ local'.client_id = Inbound.client_id
               /\ local'.session.handle = Inbound.event.handle
               /\ local'.clean = Inbound.event.clean
               /\ sessions' = sessions
               /\ chan' = chan
        /\ (Leaves("connack") /\ local.dropped = 0)
            => /\ pc' = "recv"
               /\ SendsOnce(local.session.handle, Message(local.client_id, ConnAck))
               /\ ConnAck.return_code = "Accepted"
               /\ local.client_id \in DOMAIN sessions'
               /\ sessions'[local.client_id].client_id = local.client_id
               /\ sessions'[local.client_id].handle = local.session.handle
               /\ OthersKept(local.client_id)
               /\ local.clean
                    => sessions'[local.client_id] = NewSession(local.client_id, local.session.handle)
               /\ ~local.clean
                    => sessions'[local.client_id] # NewSession(local.client_id, local.session.handle)
      ]_vars

\* C6: the ConnAck of a CONNECT has session_present true exactly when the
\* session put into the map retains something of the prior session, that is,
\* is not the session Session::new builds for the client id and handle; this
\* happens only for a CONNECT without clean-session flag over a Persistent
\* session, and otherwise the session is fresh and session_present is false.
C6_SessionPresent ==
    [][ Leaves("connack")
            => LET client_id == local.client_id
                   handle == local.session.handle
                   retained == sessions'[client_id] # NewSession(client_id, handle)
               IN  /\ client_id \in DOMAIN sessions'
                   /\ retained => (~local.clean /\ local.variant = "Persistent")
                   /\ rx_open[handle]
                        => /\ Len(chan'[handle]) = Len(chan[handle]) + 1
                           /\ chan'[handle][Len(chan'[handle])].event.type = "ConnAck"
                           /\ chan'[handle][Len(chan'[handle])].event.session_present = retained
      ]_vars

\* The coordinator is about to acknowledge a CONNECT without clean-session
\* flag that takes over a session bound by a CONNECT without the flag.
C6_Witness ==
    /\ pc = "connack"
    /\ ~local.clean
    /\ local.variant = "Persistent"
    /\ rx_open[local.session.handle]

\* C7: a Disconnect for C whose session is in the map makes the coordinator
\* take the session out of the map and send Disconnect to its handle; the
\* entry is gone afterwards, and no Disconnect or DropConnection of a
\* Transient session leaves an entry (with or without a handle) for it.
C7_DisconnectRemoves ==
    [][ /\ ( /\ Dequeues
             /\ Inbound.event.type = "Disconnect"
             /\ Inbound.client_id \in DOMAIN sessions )
            => /\ pc' = "disconnect"
               /\ local'.client_id = Inbound.client_id
               /\ local'.session = sessions[Inbound.client_id]
               /\ Inbound.client_id \notin DOMAIN sessions'
               /\ OthersKept(Inbound.client_id)
               /\ chan' = chan
        /\ Leaves("disconnect")
            => /\ pc' = "recv"
               /\ SendsOnce(local.session.handle, Message(local.client_id, Disconnect))
               /\ sessions' = sessions
        /\ ((Leaves("disconnect") \/ Leaves("drop_connection")) /\ local.variant = "Transient")
            => local.client_id \notin DOMAIN sessions'
      ]_vars

\* The coordinator is about to send Disconnect to the handle of a Transient
\* session it has taken out of the map.
C7_Witness ==
    /\ pc = "disconnect"
    /\ local.variant = "Transient"
    /\ rx_open[local.session.handle]
    /\ local.client_id \notin DOMAIN sessions

\* C8: after a Disconnect or DropConnection for a Persistent session (one bound
\* by a CONNECT without clean-session flag) the entry is still in the map,
\* Offline: without a connection handle.
C8_PersistentGoesOffline ==
    [][ ((Leaves("disconnect") \/ Leaves("drop_connection")) /\ local.variant = "Persistent")
            => /\ local.client_id \in DOMAIN sessions'
               /\ sessions'[local.client_id].handle \notin ConnIds
      ]_vars

\* C9: a DropConnection for C removes the entry of a Transient session, and
\* with no session for C it changes neither the map nor any channel.
C9_DropConnection ==
    [][ /\ ( /\ Dequeues
             /\ Inbound.event.type = "DropConnection"
             /\ Inbound.client_id \in DOMAIN sessions
             /\ intended[Inbound.client_id] = "Transient" )
            => /\ pc' = "drop_connection"
               /\ local'.variant = "Transient"
               /\ Inbound.client_id \notin DOMAIN sessions'
               /\ OthersKept(Inbound.client_id)
        /\ (Leaves("drop_connection") /\ local.variant = "Transient")
            => /\ pc' = "recv"
               /\ sessions' = sessions
               /\ local.client_id \notin DOMAIN sessions'
        /\ ( /\ Dequeues
             /\ Inbound.event.type = "DropConnection"
             /\ Inbound.client_id \notin DOMAIN sessions )
            => /\ pc' = "recv"
               /\ sessions' = sessions
               /\ chan' = chan
      ]_vars

\* The coordinator has taken a Transient session out of the map on a
\* DropConnection, another client id being without a session.
C9_Witness ==
    /\ pc = "drop_connection"
    /\ local.variant = "Transient"
    /\ local.client_id \notin DOMAIN sessions
    /\ DOMAIN sessions # ClientIds \ {local.client_id}

\* C10: a CloseSession for C leaves no entry for C in the map, whatever was
\* there, sends nothing on any channel and leaves every other entry as it was.
C10_CloseSession ==
    [][ (Dequeues /\ Inbound.event.type = "CloseSession")
            => /\ pc' = "recv"
               /\ Inbound.client_id \notin DOMAIN sessions'
               /\ OthersKept(Inbound.client_id)
               /\ chan' = chan
      ]_vars

\* The next message is a CloseSession for a client id that has a session,
\* while another client id has one too.
C10_Witness ==
    /\ CanRecv
    /\ Inbound.event.type = "CloseSession"
    /\ DOMAIN sessions = ClientIds

\* The coordinator is at the await of a send.
Sending == pc \notin {"recv", "returned_err"}

\* The connection the coordinator is sending to while Sending.
SendTarget ==
    CASE pc = "violation_drop" -> local.handle
      [] pc = "ping_resp" -> sessions[local.client_id].handle
      [] OTHER -> local.session.handle

\* After this step the map binds client_id to connection h.
BindsAfter(client_id, h) == client_id \in DOMAIN sessions' /\ sessions'[client_id].handle = h

\* C11: a PingReq for C whose session is in the map makes the coordinator send
\* exactly one PingResp over the handle the map binds to C, the session
\* staying in the map on that handle throughout; with no session for C
\* nothing is sent and the map is unchanged.
C11_PingReq ==
    [][ /\ ( /\ Dequeues
             /\ Inbound.event.type = "PingReq"
             /\ Inbound.client_id \in DOMAIN sessions )
            => /\ pc' = "ping_resp"
               /\ local'.client_id = Inbound.client_id
               /\ sessions' = sessions
               /\ chan' = chan
        /\ pc = "ping_resp"
            => /\ local.client_id \in DOMAIN sessions
               /\ sessions' = sessions
        /\ Leaves("ping_resp")
            => /\ pc' = "recv"
               /\ SendsOnce(sessions[local.client_id].handle, Message(local.client_id, PingResp))
               /\ BindsAfter(local.client_id, sessions[local.client_id].handle)
        /\ ( /\ Dequeues
             /\ Inbound.event.type = "PingReq"
             /\ Inbound.client_id \notin DOMAIN sessions )
            => /\ pc' = "recv"
               /\ sessions' = sessions
               /\ chan' = chan
      ]_vars

\* The coordinator is about to answer a PingReq on the handle of a session
\* whose receiver exists, another client id being bound too.
C11_Witness ==
    /\ pc = "ping_resp"
    /\ rx_open[sessions[local.client_id].handle]
    /\ DOMAIN sessions = ClientIds

\* C12: whenever a send of the coordinator fails because the receiver of the
\* connection is gone (the ConnAck of a CONNECT, a PingResp, a Disconnect, a
\* DropConnection), after the event is processed the map no longer binds the
\* client id to that connection.
C12_FailedSendRetires ==
    [][ (Sending /\ pc' = "recv" /\ SendFails(SendTarget))
            => ~BindsAfter(local.client_id, SendTarget)
      ]_vars

\* Broker::handle_message: the dispatch of the next message to its handler.
Dispatch ==
    \/ HandleConnect
    \/ HandleDisconnect
    \/ HandleDropConnection
    \/ HandleCloseSession
    \/ HandlePingReq
    \/ HandleIgnored

\* C13: no failed send stops the coordinator: run never ends with an error,
\* after a failed send the handler goes on (to the ConnAck after a takeover's
\* DropConnection, back to recv otherwise) with the inbound queue as it was,
\* and at recv the oldest queued message can always be dispatched.
C13_FailureNotFatal ==
    /\ [](CanRecv => ENABLED Dispatch)
    /\ [][ /\ pc' # "returned_err"
           /\ (Sending /\ pc' # pc /\ SendFails(SendTarget))
                => /\ pc' = (IF pc = "takeover_drop" THEN "connack" ELSE "recv")
                   /\ messages' = messages
                   /\ chan' = chan
         ]_vars

\* A send is about to fail while another message waits in the inbound queue.
C13_Witness ==
    /\ pc = "disconnect"
    /\ SendFails(local.session.handle)
    /\ messages # <<>>

\* C14: once every BrokerHandle is dropped and the coordinator has drained the
\* inbound queue, recv yields None, on which run leaves its loop and returns
\* Ok(()) instead of waiting on the empty queue.
C14_RunReturns == (handles = 0 /\ pc = "recv" /\ messages = <<>>) => RecvNone

\* The awaits the handler of an event of this type can go to from recv.
HandlerPcs(type) ==
    CASE type = "Connect" -> {"violation_drop", "takeover_drop", "connack"}
      [] type = "Disconnect" -> {"disconnect", "recv"}
      [] type = "DropConnection" -> {"drop_connection", "recv"}
      [] type = "PingReq" -> {"ping_resp", "recv"}
      [] OTHER -> {"recv"}

\* The event the coordinator sends at this await.
EventAt(at) ==
    CASE at = "connack" -> ConnAck
      [] at = "disconnect" -> Disconnect
      [] at = "ping_resp" -> PingResp
      [] OTHER -> DropConnection

\* C15: the inbound queue is first in, first out (a submitted message goes
\* behind the queued ones, the coordinator takes the oldest, only between
\* handlers, and runs the handler of that very message), and every event a
\* handler emits goes behind the ones already on the connection's channel,
\* from which the worker takes the oldest: the outbound events of a client id
\* lie on a channel in the order in which their inbound events were processed.
C15_Order ==
    [][ /\ Len(messages') > Len(messages)
            => \E message \in env.workload : messages' = Append(messages, message)
        /\ Len(messages') = Len(messages)
            => messages' = messages
        /\ Len(messages') < Len(messages)
            => /\ pc = "recv"
               /\ messages' = Tail(messages)
               /\ pc' \in HandlerPcs(Inbound.event.type)
               /\ pc' # "recv" => local'.client_id = Inbound.client_id
        /\ \A h \in ConnIds :
            /\ Len(chan'[h]) > Len(chan[h])
                => /\ Sending
                   /\ h = SendTarget
                   /\ chan'[h] = Append(chan[h], Message(local.client_id, EventAt(pc)))
            /\ Len(chan'[h]) = Len(chan[h])
                => chan'[h] = chan[h]
            /\ Len(chan'[h]) < Len(chan[h])
                => \/ chan'[h] = Tail(chan[h])
                   \/ ~rx_open'[h] /\ chan'[h] = <<>>
      ]_vars

\* Two different messages are queued, a handler is at a send, and a channel
\* holds two different events.
C15_Witness ==
    /\ Len(messages) = 2
    /\ messages[1] # messages[2]
    /\ Sending
    /\ \E h \in ConnIds : Len(chan[h]) = 2 /\ chan[h][1] # chan[h][2]

\* The bit of this raw identifier is set in the bitset.
IdInUse(id) == HasBit(in_use[Entry(id).block], Entry(id).mask)

\* The raw identifiers whose bit is set.
BitsSet == {id \in 0..MaxPacketId : IdInUse(id)}

\* C16: from the default state, under any reserve and discard calls, a
\* successful reserve returns an identifier that is not 0 and whose bit was
\* clear (it was not reserved) when reserve was called, and the bit of
\* identifier 0 is never set.
C16_ReserveFresh ==
    /\ [](~IdInUse(0))
    /\ [][ (outcome'.call = "reserve" /\ outcome'.ok)
               => /\ outcome'.id \in PacketIdentifier
                  /\ ~IdInUse(outcome'.id)
                  /\ outcome'.id \notin reserved
                  /\ outcome'.id \in BitsSet'
         ]_vars

\* The cursor has wrapped from the greatest identifier, still reserved, to 1.
C16_Witness ==
    /\ outcome = [call |-> "reserve", ok |-> TRUE, id |-> 1]
    /\ MaxPacketId \in reserved
    /\ IdInUse(WordBits)

\* C17: the identifiers whose bit is set are exactly the ones returned by a
\* successful reserve and not discarded since, and neither a failed reserve
\* nor a discard of an identifier that is not reserved changes that set.
C17_BitsAreReserved ==
    /\ [](BitsSet = reserved)
    /\ [][ /\ (outcome'.call = "reserve" /\ ~outcome'.ok) => BitsSet' = BitsSet
           /\ (outcome'.call = "discard" /\ outcome'.id \notin reserved) => BitsSet' = BitsSet
           /\ (outcome'.call = "discard" /\ outcome'.id \in reserved)
                => BitsSet' = BitsSet \ {outcome'.id}
           /\ (outcome'.call = "reserve" /\ outcome'.ok)
                => BitsSet' = BitsSet \cup {outcome'.id}
         ]_vars

\* A reserve has failed while identifiers of both words are reserved and
\* others are free.
C17_Witness ==
    /\ outcome.call = "reserve"
    /\ ~outcome.ok
    /\ \E a, b \in reserved : Entry(a).block # Entry(b).block
    /\ reserved # PacketIdentifier

\* The filter strings a sequence of SubscribeTo pairs names.
Named(pairs) == {pairs[i].topic_filter : i \in 1..Len(pairs)}

\* The filter string parses.
Parses(topic_filter) == ParseTopicFilter(topic_filter).ok

\* The place of the last pair that names the filter.
LastOf(pairs, topic_filter) ==
    CHOOSE i \in 1..Len(pairs) :
        /\ pairs[i].topic_filter = topic_filter
        /\ \A j \in (i + 1)..Len(pairs) : pairs[j].topic_filter # topic_filter

\* C18: a SUBSCRIBE on a Transient or Persistent session returns a SubAck
\* with the packet identifier of the request and one ack per requested pair,
\* in the order of the request: Success(qos) for a filter that parses, which
\* is then in the table under its string with the parsed filter, and Failure
\* for one that does not, which leaves the table as it was under that string;
\* the variant stays.
C18_SubAck ==
    [][ (called'.op = "subscribe" /\ Connected(sess))
            => LET pairs == called'.request.subscribe_to
                   result == called'.result
                   before == sess.state.subscriptions
                   after == sess'.state.subscriptions
               IN  /\ result.kind = "SubAck"
                   /\ result.packet_identifier = called'.request.packet_identifier
                   /\ Len(result.qos) = Len(pairs)
                   /\ sess'.variant = sess.variant
                   /\ \A i \in 1..Len(pairs) :
                        LET topic_filter == pairs[i].topic_filter
                        IN  IF Parses(topic_filter)
                                THEN /\ result.qos[i] = SubAckSuccess(pairs[i].qos)
                                     /\ topic_filter \in DOMAIN after
                                     /\ after[topic_filter].filter
                                            = ParseTopicFilter(topic_filter).filter
                                ELSE /\ result.qos[i] = SubAckFailure
                                     /\ topic_filter \notin DOMAIN after
                                     /\ topic_filter \notin DOMAIN before
      ]_vars

\* A SUBSCRIBE of a filter that does not parse followed by one that does has
\* been answered on a Persistent session.
C18_Witness ==
    /\ called.op = "subscribe"
    /\ sess.variant = "Persistent"
    /\ Len(called.request.subscribe_to) = 2
    /\ called.result.kind = "SubAck"
    /\ called.result.qos[1] = SubAckFailure
    /\ called.result.qos[2].ack = "Success"

\* C19: after a SUBSCRIBE the table holds one entry under each filter string
\* it names (that parses), with the QoS of the last pair naming it, whatever
\* was under that string before; every other entry is as it was; and the
\* same SUBSCRIBE once more changes nothing.
C19_LastWriterWins ==
    [][ (called'.op = "subscribe" /\ Connected(sess))
            => LET pairs == called'.request.subscribe_to
                   named == {f \in Named(pairs) : Parses(f)}
                   before == sess.state.subscriptions
                   after == sess'.state.subscriptions
               IN  /\ DOMAIN after = DOMAIN before \cup named
                   /\ \A f \in named : after[f].max_qos = pairs[LastOf(pairs, f)].qos
                   /\ \A g \in DOMAIN before \ named : after[g] = before[g]
                   /\ ConnectedSubscribe(sess'.state, called'.request).state = sess'.state
      ]_vars

\* A SUBSCRIBE naming one filter twice with different QoS has been applied to
\* a table that held that filter and another one.
C19_Witness ==
    /\ called.op = "subscribe"
    /\ Connected(sess)
    /\ Len(called.request.subscribe_to) = 2
    /\ called.request.subscribe_to[1].topic_filter = called.request.subscribe_to[2].topic_filter
    /\ called.request.subscribe_to[1].qos # called.request.subscribe_to[2].qos
    /\ Cardinality(DOMAIN sess.state.subscriptions) = 2
    /\ \E f \in DOMAIN sess.state.subscriptions :
            sess.state.subscriptions[f].max_qos # called.request.subscribe_to[2].qos

\* C20: an UNSUBSCRIBE on a Transient or Persistent session removes exactly
\* the entries under the requested filter strings, leaves every other entry
\* as it was (a string with no entry changes nothing) and returns an UnsubAck
\* with the packet identifier of the request; the variant stays.
C20_Unsubscribe ==
    [][ (called'.op = "unsubscribe" /\ Connected(sess))
            => LET from == called'.request.unsubscribe_from
                   requested == {from[i] : i \in 1..Len(from)}
                   before == sess.state.subscriptions
                   after == sess'.state.subscriptions
               IN  /\ DOMAIN after = DOMAIN before \ requested
                   /\ \A g \in DOMAIN after : after[g] = before[g]
                   /\ called'.result = [kind |-> "UnsubAck",
                                        packet_identifier |-> called'.request.packet_identifier]
                   /\ sess'.variant = sess.variant
      ]_vars

\* An UNSUBSCRIBE of a filter with no entry and of one with an entry has been
\* answered, and another entry is left.
C20_Witness ==
    /\ called.op = "unsubscribe"
    /\ Connected(sess)
    /\ called.result.kind = "UnsubAck"
    /\ called.request.unsubscribe_from = << <<"#", "bad">>, <<"topic", "new">> >>
    /\ DOMAIN sess.state.subscriptions = {<<"topic", "#">>}

\* C21: a SUBSCRIBE or an UNSUBSCRIBE on a session that is Offline or
\* Disconnecting fails with the error kind SessionOffline, so that no SubAck
\* or UnsubAck is returned, and the session is as before: the same variant
\* with the same subscription table.
C21_OfflineRejects ==
    [][ (called'.op \in {"subscribe", "unsubscribe"}
            /\ sess.variant \in {"Offline", "Disconnecting"})
            => /\ called'.result.kind = "Err"
               /\ called'.result.error = "SessionOffline"
               /\ called'.result.kind \notin {"SubAck", "UnsubAck"}
               /\ sess'.variant = sess.variant
               /\ sess.variant = "Offline"
                    => sess'.state.subscriptions = sess.state.subscriptions
               /\ sess' = sess
      ]_vars

\* An Offline session holding a subscription has rejected a SUBSCRIBE of
\* another filter that parses.
C21_Witness ==
    /\ called.op = "subscribe"
    /\ called.result = SessionOffline
    /\ sess.variant = "Offline"
    /\ DOMAIN sess.state.subscriptions = {<<"topic", "#">>}
    /\ Len(called.request.subscribe_to) = 1
    /\ called.request.subscribe_to[1].topic_filter = <<"topic", "new">>

\* The call was a reserve that returned an identifier.
ReserveOk(call) == call.call = "reserve" /\ call.ok

\* C22: from the default state the first reserve returns 1, and every
\* successful reserve returns the identifier after the one the last
\* successful reserve returned (1 after the greatest identifier, never 0),
\* whichever identifiers have been discarded in between: an identifier
\* discarded behind the cursor is not returned until the cursor has gone
\* round to it.  The cursor moves in a successful reserve only.
C22_RollingCursor ==
    /\ [](returned = 0 => previous = MaxPacketId)
    /\ [](returned # 0 => previous = returned)
    /\ [][ /\ (outcome'.call = "reserve" /\ returned = 0)
                => outcome' = [call |-> "reserve", ok |-> TRUE, id |-> 1]
           /\ (ReserveOk(outcome') /\ returned \in 1..(MaxPacketId - 1))
                => outcome'.id = returned + 1
           /\ (ReserveOk(outcome') /\ returned = MaxPacketId)
                => outcome'.id = 1
           /\ ReserveOk(outcome') => returned' = outcome'.id
           /\ ~ReserveOk(outcome') => returned' = returned /\ previous' = previous
           /\ (ReserveOk(outcome') /\ outcome.call = "discard" /\ outcome'.id = outcome.id)
                => outcome.id = Successor(returned)
         ]_vars

\* reserve has returned 4 after 1, 2, 3 with 2 discarded in between, as in the
\* test packet_identifiers.
C22_Witness ==
    /\ outcome = [call |-> "reserve", ok |-> TRUE, id |-> 4]
    /\ reserved = {1, 3, 4}
    /\ returned = 4

\* The outcome of a reserve that returned
\* Err(Error::from(ErrorKind::PacketIdentifiersExhausted)), its only error.
PacketIdentifiersExhausted == [call |-> "reserve", ok |-> FALSE, id |-> 0]

\* The identifier following the cursor is reserved.
Blocked == Successor(previous) \in reserved

\* C23: a reserve fails, with PacketIdentifiersExhausted, exactly when the
\* identifier following the cursor is reserved, whatever else is free, and a
\* failed reserve changes neither the bitset nor the cursor; so the next
\* reserve fails again, and every one after it, until that one identifier is
\* discarded, after which reserve succeeds.
C23_Exhausted ==
    [][ /\ outcome'.call = "reserve"
            => /\ ~outcome'.ok <=> Blocked
               /\ ~outcome'.ok <=> IdInUse(Successor(previous))
               /\ ~outcome'.ok => outcome' = PacketIdentifiersExhausted
        /\ outcome' = PacketIdentifiersExhausted
            => /\ in_use' = in_use
               /\ previous' = previous
               /\ Blocked'
        /\ (outcome = PacketIdentifiersExhausted /\ outcome'.call = "reserve")
            => outcome' = PacketIdentifiersExhausted
        /\ (Blocked /\ outcome'.call = "discard")
            => (Blocked' <=> outcome'.id # Successor(previous))
      ]_vars

\* A reserve has failed on the one reserved identifier, every other
\* identifier being free.
C23_Witness ==
    /\ outcome = PacketIdentifiersExhausted
    /\ Cardinality(reserved) = 1
    /\ Cardinality(FreeIds) = MaxPacketId - 1
    /\ Blocked

\* C24: discard(id) never fails; after it the bit of id is clear, the bit of
\* every other identifier and the cursor are as before, and when the bit of
\* id was clear already nothing of the allocator has changed, so that a
\* second discard(id) changes nothing.
C24_Discard ==
    [][ \A id \in PacketIdentifier :
            (outcome'.call = "discard" /\ outcome'.id = id)
                => /\ outcome'.ok
                   /\ ~IdInUse(id)'
                   /\ \A other \in (0..MaxPacketId) \ {id} : IdInUse(other)' <=> IdInUse(other)
                   /\ previous' = previous
                   /\ returned' = returned
                   /\ ~IdInUse(id) => <<in_use, previous>>' = <<in_use, previous>>
                   /\ outcome = outcome' => <<in_use, previous>>' = <<in_use, previous>>
      ]_vars

\* An identifier that is not reserved has been discarded while identifiers of
\* both words are reserved.
C24_Witness ==
    /\ outcome.call = "discard"
    /\ outcome.id \notin reserved
    /\ outcome.id = WordBits - 1
    /\ {WordBits - 2, WordBits} \subseteq reserved

\* Bit number `bit` of the word is set.
BitOf(word, bit) == (word \div (2 ^ bit)) % 2 = 1

\* C25: the array of words is the reserved set, bit by bit: with W the width
\* of a word, the array has (number of identifier values) / W words of W bits
\* each; bit (id mod W) of word (id div W) is set if and only if id is
\* reserved, for every identifier, the index id div W lying within the array;
\* and reserving identifier W sets bit 0 of word 1 and leaves word 0 alone.
C25_BitsetRefines ==
    /\ [](/\ DOMAIN in_use = 0..((NumIds \div WordBits) - 1)
          /\ \A block \in DOMAIN in_use : in_use[block] \in 0..((2 ^ WordBits) - 1)
          /\ \A id \in 0..MaxPacketId :
                /\ id \div WordBits \in DOMAIN in_use
                /\ BitOf(in_use[id \div WordBits], id % WordBits) <=> id \in reserved)
    /\ [][ (ReserveOk(outcome') /\ outcome'.id = WordBits)
               => /\ ~BitOf(in_use[1], 0)
                  /\ in_use'[1] = in_use[1] + 1
                  /\ in_use'[0] = in_use[0]
         ]_vars

\* Identifier W has been reserved into word 1 while word 0 holds the bit of
\* identifier W - 1 and no more the bit of identifier 1.
C25_Witness ==
    /\ outcome = [call |-> "reserve", ok |-> TRUE, id |-> WordBits]
    /\ BitOf(in_use[1], 0)
    /\ BitOf(in_use[0], WordBits - 1)
    /\ ~BitOf(in_use[0], 1)
    /\ reserved = {WordBits - 1, WordBits}

\* Every step of the coordinator: the dispatch of a message and the return of
\* a send.
Coordinator ==
    \/ Dispatch
    \/ SendViolationDrop
    \/ SendTakeoverDrop
    \/ SendConnAck
    \/ SendDisconnect
    \/ SendDropConnection
    \/ SendPingResp

\* Connection h's channel is full and its receiver exists.
ChannelFull(h) == rx_open[h] /\ Len(chan[h]) >= env.chan_cap

\* The coordinator is suspended in a send to a connection whose channel is
\* full.
Suspended == Sending /\ ChannelFull(SendTarget)

\* C26: while the coordinator is suspended in a send to a connection whose
\* channel is full it can take no step: it dequeues no inbound message of any
\* client id, and its position, its locals, the session map and what it has
\* put on the channels stay as they are; it leaves the send only when the
\* channel has room (the send completes) or has lost its receiver (the send
\* fails).  So the messages of every other client wait in the inbound queue
\* for as long as that one connection does not drain its channel.
C26_HeadOfLineBlocking ==
    /\ [](Suspended => ~ENABLED Coordinator)
    /\ [][ /\ Sending
               => /\ \E tail \in {<<>>} \cup {<<message>> : message \in env.workload} :
                        messages' = messages \o tail
                  /\ pc' # pc => ~ChannelFull(SendTarget)
           /\ Suspended
               => /\ pc' = pc
                  /\ local' = local
                  /\ sessions' = sessions
                  /\ \A h \in ConnIds : Len(chan'[h]) <= Len(chan[h])
         ]_vars

\* The coordinator is suspended sending a Disconnect of one client to a full
\* channel while the inbound queue holds a message of another client which
\* has a session on another connection.
C26_Witness ==
    /\ pc = "disconnect"
    /\ Suspended
    /\ messages # <<>>
    /\ Head(messages).client_id # local.client_id
    /\ Head(messages).event.type = "PingReq"
    /\ Head(messages).client_id \in DOMAIN sessions
    /\ sessions[Head(messages).client_id].handle # local.session.handle
    /\ chan[sessions[Head(messages).client_id].handle] = <<>>

\* C27: once the coordinator has sent DropConnection to a connection it sends
\* that connection nothing more; in particular no message is ever put on a
\* channel behind a DropConnection that still lies on it.
C27_NothingAfterDrop ==
    \A h \in ConnIds :
        \A i \in 1..(Len(chan[h]) - 1) : chan[h][i].event # DropConnection

\* The next message is an event of this type for a client id whose session is
\* bound to another connection than the one that submitted the event.
StaleEvent(type) ==
    /\ Dequeues
    /\ Inbound.event.type = type
    /\ Inbound.client_id \in DOMAIN sessions
    /\ Inbound.event.from # sessions[Inbound.client_id].handle

\* C28: a Disconnect, DropConnection, CloseSession or PingReq for C is applied
\* to the session the map holds for C, whichever connection submitted it:
\* submitted by A while C is bound to B (B having taken C over from A), a
\* Disconnect or a DropConnection takes the session bound to B out of the map
\* and is sent to B, a CloseSession removes the session bound to B, and a
\* PingReq is answered on B; nothing is sent to A.
C28_SubmitterIgnored ==
    [][ /\ \A type \in {"Disconnect", "DropConnection"} :
            StaleEvent(type)
                => /\ pc' = (IF type = "Disconnect" THEN "disconnect" ELSE "drop_connection")
                   /\ local'.client_id = Inbound.client_id
                   /\ local'.session = sessions[Inbound.client_id]
                   /\ local'.session.handle # Inbound.event.from
                   /\ Inbound.client_id \notin DOMAIN sessions'
                   /\ OthersKept(Inbound.client_id)
        /\ Leaves("disconnect")
            => SendsOnce(local.session.handle, Message(local.client_id, Disconnect))
        /\ Leaves("drop_connection")
            => SendsOnce(local.session.handle, Message(local.client_id, DropConnection))
        /\ StaleEvent("CloseSession")
            => /\ Inbound.client_id \notin DOMAIN sessions'
               /\ OthersKept(Inbound.client_id)
               /\ chan' = chan
        /\ StaleEvent("PingReq")
            => /\ pc' = "ping_resp"
               /\ local'.client_id = Inbound.client_id
               /\ sessions' = sessions
        /\ Leaves("ping_resp")
            => SendsOnce(sessions[local.client_id].handle, Message(local.client_id, PingResp))
      ]_vars

\* The next message is a Disconnect for C submitted by connection A, whose
\* channel holds the DropConnection for C, while the map binds C to
\* connection B.
C28_Witness ==
    /\ CanRecv
    /\ Inbound.event.type = "Disconnect"
    /\ Inbound.client_id \in DOMAIN sessions
    /\ Inbound.event.from # sessions[Inbound.client_id].handle
    /\ rx_open[sessions[Inbound.client_id].handle]
    /\ chan[Inbound.event.from] = <<Message(Inbound.client_id, DropConnection)>>

====
